---- MODULE Spec2Model ----
(***************************************************************************)
(* PlantDashboard (src/App.tsx): a React function component holding six    *)
(* useState cells and two useEffect hooks over a randomly generated         *)
(* dataset of 7 day-buckets.                                                *)
(*                                                                          *)
(* Every state of the model is one render React has committed: the six     *)
(* state cells as that render saw them, plus the passive effects the        *)
(* commit left pending (those whose dependency array changed since the      *)
(* previous commit).  A tap runs its handler and the render it causes as    *)
(* one step; FlushPassiveEffects runs the pending effects with the values   *)
(* of the committed render and commits the render their setState calls      *)
(* cause.  React runs the passive effects of the commit a tap causes        *)
(* before it hands the next tap to its handler, so taps are taken only     *)
(* when no effect is pending (Idle); the controls under the day-picker      *)
(* Modal take no taps while it is visible.                                  *)
(*                                                                          *)
(* Math.random is a stream of draws chosen by a seed; every single draw     *)
(* k / RandomScale occurs in some stream, so each measurement takes every   *)
(* value of its span.  JavaScript arrays are sequences: index i of the code is *)
(* position i + 1 here (operator At).  Object identity (what Object.is      *)
(* compares for dependency arrays and setState bail-out) is the obj field   *)
(* of a reading together with its datetime, so that equality of two         *)
(* readings in the model is identity of the objects in the program.         *)
(***************************************************************************)
EXTENDS Integers, Sequences, FiniteSets, TLC

\* Bounds of the model.
MaxSeed == 3        \* Math.random streams 0..MaxSeed are explored
MaxObj == 2         \* object identities 0..MaxObj (recycled once unreachable)
RandomScale == 60   \* Math.random() is k / RandomScale, k in 0..RandomScale-1
ProbeMargin == 3    \* classifier probes reach this far around each threshold

VARIABLES
  allDaysData,       \* useState<DayData[]>        (line 84)
  selectedDayIndex,  \* useState<number>            (line 85)
  plantData,         \* useState<PlantData[]>       (line 86)
  selectedMetric,    \* useState<MetricType>        (line 87)
  plantStatus,       \* useState<PlantStatus>       (line 88)
  dayPickerVisible,  \* useState<boolean>           (line 89)
  pendingEffects,    \* passive effects the last commit scheduled
  lastEvent,         \* history: the last tap handled (or the mount)
  probe              \* classifier harness: the reading probed and its status

vars == <<allDaysData, selectedDayIndex, plantData, selectedMetric,
          plantStatus, dayPickerVisible, pendingEffects, lastEvent, probe>>

PlantStatus == {"healthy", "needs water", "too hot", "low humidity"}
MetricType == {"temperature", "humidity", "soilMoisture"}

\* The record kept of a handled tap: which control, and the day row or the
\* metric button tapped (-1 and "none" where there is none).
Tap(control, index, metric) == [control |-> control, index |-> index, metric |-> metric]

\* arr[i] of the code
At(arr, i) == arr[i + 1]

Seeds == 0..MaxSeed
Objs == 0..MaxObj

----------------------------------------------------------------------------
\* Math.random(): the k-th call of a generateHistoricalData run whose stream
\* is `seed`, as the numerator of a fraction of RandomScale (so in [0, 1)).
MathRandom(seed, k) ==
  ((seed + 1) * 17 + k * 7 + (k \div 3) * 11 + (k \div 36) * (seed + 3) * 5)
    % RandomScale

\* Math.floor(Math.random() * n) for the draw u = numerator / RandomScale
FloorRandomTimes(numerator, n) == (numerator * n) \div RandomScale

\* toLocaleTimeString('en-US', {hour: '2-digit', minute: '2-digit'})
ToLocaleTimeString(datetime) ==
  [hour |-> IF datetime.hour % 12 = 0 THEN 12 ELSE datetime.hour % 12,
   minute |-> datetime.minute,
   period |-> IF datetime.hour < 12 THEN "AM" ELSE "PM"]

\* toLocaleDateString('en-US', {month: 'short', day: 'numeric'}): the calendar
\* day alone (days are counted from `now`, 0 = today, -1 = yesterday).
ToLocaleDateString(datetime) == [day |-> datetime.day]

\* Mutant of NewPlantData: the humidity and soil-moisture spans applied to the
\* temperature and humidity (the multipliers shifted by one field).
NewPlantDataShiftedSpans(obj, seed, calls, datetime) ==
  [obj |-> obj,
   datetime |-> datetime,
   displayTime |-> ToLocaleTimeString(datetime),
   displayDate |-> ToLocaleDateString(datetime),
   temperature |-> FloorRandomTimes(MathRandom(seed, calls), 20) + 65,
   humidity |-> FloorRandomTimes(MathRandom(seed, calls + 1), 30) + 50,
   soilMoisture |-> FloorRandomTimes(MathRandom(seed, calls + 2), 30) + 40]

\* Mutant of NewPlantData: temperatures drawn from 65..79.
NewPlantDataWarm(obj, seed, calls, datetime) ==
  [obj |-> obj,
   datetime |-> datetime,
   displayTime |-> ToLocaleTimeString(datetime),
   displayDate |-> ToLocaleDateString(datetime),
   temperature |-> FloorRandomTimes(MathRandom(seed, calls), 15) + 65,
   humidity |-> FloorRandomTimes(MathRandom(seed, calls + 1), 20) + 50,
   soilMoisture |-> FloorRandomTimes(MathRandom(seed, calls + 2), 30) + 40]

\* The object pushed at lines 63-70; `calls` Math.random calls were made before.
NewPlantData(obj, seed, calls, datetime) ==
  [obj |-> obj,
   datetime |-> datetime,
   displayTime |-> ToLocaleTimeString(datetime),
   displayDate |-> ToLocaleDateString(datetime),
   temperature |-> FloorRandomTimes(MathRandom(seed, calls), 10) + 65,
   humidity |-> FloorRandomTimes(MathRandom(seed, calls + 1), 20) + 50,
   soilMoisture |-> FloorRandomTimes(MathRandom(seed, calls + 2), 30) + 40]

\* Mutant of HourLoopContinues: hour <= 24.
HourLoopIncludes24(hour) == hour <= 24

\* for (let hour = 0; hour < 24; hour += 2)
HourLoopContinues(hour) == hour < 24

RECURSIVE HourLoop(_, _, _, _, _)
HourLoop(hour, dayData, date, obj, seed) ==
  IF HourLoopContinues(hour)
  THEN HourLoop(hour + 2,
                Append(dayData,
                       NewPlantData(obj, seed, date.calls + 3 * Len(dayData),
                                    [day |-> date.day, hour |-> hour, minute |-> 0])),
                date, obj, seed)
  ELSE dayData

\* for (let dayOffset = 0; dayOffset < 7; dayOffset++)
RECURSIVE DayLoop(_, _, _, _, _)
DayLoop(dayOffset, days, calls, obj, seed) ==
  IF dayOffset < 7
  THEN LET date == [day |-> 0 - dayOffset, calls |-> calls]
           dayStr == ToLocaleDateString(date)
           dayData == HourLoop(0, <<>>, date, obj, seed)
       IN DayLoop(dayOffset + 1,
                  Append(days, [label |-> dayStr, value |-> dayStr, data |-> dayData]),
                  calls + 3 * Len(dayData), obj, seed)
  ELSE days

generateHistoricalData(obj, seed) == DayLoop(0, <<>>, 0, obj, seed)

----------------------------------------------------------------------------
\* Mutant of CurrentData: the first reading of the day, plantData[0].
CurrentDataFirst(data) == At(data, 0)

\* const currentData = plantData[plantData.length - 1]
CurrentData(data) == At(data, Len(data) - 1)

\* Mutant of Classify: the temperature test placed before the soil test.
ClassifyTemperatureFirst(currentData) ==
  IF currentData.temperature > 75 THEN "too hot"
  ELSE IF currentData.soilMoisture < 45 THEN "needs water"
  ELSE IF currentData.humidity < 55 THEN "low humidity"
  ELSE "healthy"

\* The body of the status effect: the status it passes to setPlantStatus.
Classify(currentData) ==
  IF currentData.soilMoisture < 45 THEN "needs water"
  ELSE IF currentData.temperature > 75 THEN "too hot"
  ELSE IF currentData.humidity < 55 THEN "low humidity"
  ELSE "healthy"

\* chartData.datasets[0].data
ChartSeries == [k \in 1..Len(plantData) |-> plantData[k][selectedMetric]]

\* The day label of the day selector.
DayLabel == At(allDaysData, selectedDayIndex).label

\* The identity a call of generateHistoricalData gives its objects: one no
\* object still held by the state has.
HeldObjs == {CurrentData(At(allDaysData, 0).data).obj, CurrentData(plantData).obj}
NewObj == CHOOSE o \in Objs : o \notin HeldObjs

\* A render with the given state cells is committed; the effects whose
\* dependency arrays differ from the previous commit's are scheduled.
Commit(all, sel, data, metric, status, visible) ==
  /\ allDaysData' = all
  /\ selectedDayIndex' = sel
  /\ plantData' = data
  /\ selectedMetric' = metric
  /\ plantStatus' = status
  /\ dayPickerVisible' = visible
  /\ pendingEffects' =
       (IF sel # selectedDayIndex \/ all # allDaysData THEN {"daySelection"} ELSE {})
         \cup (IF CurrentData(data) # CurrentData(plantData) THEN {"status"} ELSE {})
  /\ probe' = probe

\* Taps are handled once the passive effects of the last commit have run.
Idle == pendingEffects = {}

\* The first commit: the useState initialisers, both effects scheduled.
Mount(seed) ==
  /\ allDaysData = generateHistoricalData(0, seed)
  /\ selectedDayIndex = 0
  /\ plantData = At(allDaysData, 0).data
  /\ selectedMetric = "temperature"
  /\ plantStatus = "healthy"
  /\ dayPickerVisible = FALSE
  /\ pendingEffects = {"daySelection", "status"}
  /\ lastEvent = Tap("mount", -1, "none")

Init ==
  /\ \E seed \in Seeds : Mount(seed)
  /\ probe = <<>>

\* Mutant of RefreshedPlantData: setPlantData(newData[0].data).
RefreshedPlantDataToday(newData) == At(newData, 0).data

\* setPlantData(newData[selectedDayIndex].data) of refreshData
RefreshedPlantData(newData) == At(newData, selectedDayIndex).data

refreshData ==
  /\ Idle /\ ~dayPickerVisible
  /\ \E seed \in Seeds :
       LET newData == generateHistoricalData(NewObj, seed)
       IN Commit(newData, selectedDayIndex, RefreshedPlantData(newData),
                 selectedMetric, plantStatus, dayPickerVisible)
  /\ lastEvent' = Tap("refresh", -1, "none")

OpenDayPicker ==
  /\ Idle /\ ~dayPickerVisible
  /\ Commit(allDaysData, selectedDayIndex, plantData, selectedMetric, plantStatus, TRUE)
  /\ lastEvent' = Tap("openDayPicker", -1, "none")

CloseDayPicker ==
  /\ Idle /\ dayPickerVisible
  /\ Commit(allDaysData, selectedDayIndex, plantData, selectedMetric, plantStatus, FALSE)
  /\ lastEvent' = Tap("closeDayPicker", -1, "none")

\* Mutant of DayRows: one row more than there are buckets.
DayRowsOneMore == 0..Len(allDaysData)

\* The indices allDaysData.map renders a row for.
DayRows == 0..(Len(allDaysData) - 1)

SelectDay(index) ==
  /\ Idle /\ dayPickerVisible
  /\ Commit(allDaysData, index, plantData, selectedMetric, plantStatus, FALSE)
  /\ lastEvent' = Tap("selectDay", index, "none")

\* Mutant of TappedMetric: every button passes 'temperature'.
TappedMetricTemperature(metric) == "temperature"

\* The metric a metric button passes to setSelectedMetric.
TappedMetric(metric) == metric

SelectMetric(metric) ==
  /\ Idle /\ ~dayPickerVisible
  /\ Commit(allDaysData, selectedDayIndex, plantData, TappedMetric(metric),
            plantStatus, dayPickerVisible)
  /\ lastEvent' = Tap("selectMetric", -1, metric)

\* Mutant of DaySelectionEffect: setPlantData(allDaysData[0].data).
DaySelectionEffectToday == At(allDaysData, 0).data

\* setPlantData(allDaysData[selectedDayIndex].data) of the day-selection effect
DaySelectionEffect == At(allDaysData, selectedDayIndex).data

FlushPassiveEffects ==
  /\ pendingEffects # {}
  /\ Commit(allDaysData, selectedDayIndex,
            IF "daySelection" \in pendingEffects THEN DaySelectionEffect ELSE plantData,
            selectedMetric,
            IF "status" \in pendingEffects THEN Classify(CurrentData(plantData))
                                           ELSE plantStatus,
            dayPickerVisible)
  /\ lastEvent' = lastEvent

Next ==
  \/ refreshData
  \/ OpenDayPicker
  \/ CloseDayPicker
  \/ \E index \in DayRows : SelectDay(index)
  \/ \E metric \in MetricType : SelectMetric(metric)
  \/ FlushPassiveEffects

Spec == Init /\ [][Next]_vars

----------------------------------------------------------------------------
\* The status effect applied to one reading, for readings on both sides of
\* every threshold (the generator alone never leaves 65..74 degrees).
ProbeReadings ==
  [temperature : (75 - ProbeMargin)..(75 + ProbeMargin),
   humidity : (55 - ProbeMargin)..(55 + ProbeMargin),
   soilMoisture : (45 - ProbeMargin)..(45 + ProbeMargin)]

InitClassify ==
  /\ Mount(0)
  /\ \E reading \in ProbeReadings :
       probe = [reading |-> reading, status |-> "unclassified"]

StatusEffect ==
  /\ probe.status = "unclassified"
  /\ probe' = [probe EXCEPT !.status = Classify(probe.reading)]
  /\ UNCHANGED <<allDaysData, selectedDayIndex, plantData, selectedMetric,
                 plantStatus, dayPickerVisible, pendingEffects, lastEvent>>

NextClassify == StatusEffect

SpecClassify == InitClassify /\ [][NextClassify]_vars

----------------------------------------------------------------------------
\* All readings of a dataset.
Readings(days) ==
  UNION {{days[d].data[k] : k \in 1..Len(days[d].data)} : d \in 1..Len(days)}

\* C1: the classifier gives every reading exactly one status, by priority:
\* soilMoisture < 45 is 'needs water' whatever the rest; otherwise
\* temperature > 75 is 'too hot'; otherwise humidity < 55 is 'low humidity';
\* otherwise 'healthy'.  (Checked under SpecClassify.)
C1_ClassifierPriority ==
  probe.status # "unclassified" =>
    LET r == probe.reading
        s == probe.status
    IN /\ s \in PlantStatus
       /\ (s = "needs water") <=> (r.soilMoisture < 45)
       /\ (s = "too hot") <=> (r.soilMoisture >= 45 /\ r.temperature > 75)
       /\ (s = "low humidity") <=>
            (r.soilMoisture >= 45 /\ r.temperature <= 75 /\ r.humidity < 55)
       /\ (s = "healthy") <=>
            (r.soilMoisture >= 45 /\ r.temperature <= 75 /\ r.humidity >= 55)

\* A dry, hot, low-humidity reading has been classified as 'needs water'.
C1_Witness ==
  /\ probe.status = "needs water"
  /\ probe.reading.temperature > 75
  /\ probe.reading.humidity < 55

\* C2: once the pending effects have run, plantStatus is the status of the
\* last reading (index 11) of the selected day's bucket.
C2_StatusOfSelectedDay ==
  Idle => plantStatus = Classify(At(At(allDaysData, selectedDayIndex).data, 11))

\* Settled after a refresh made while a day other than today was selected,
\* with a status other than the initial one.
C2_Witness ==
  /\ Idle
  /\ lastEvent = Tap("refresh", -1, "none")
  /\ selectedDayIndex > 0
  /\ plantStatus = "needs water"

\* C3: after day i is picked and the effects have settled, plantData is
\* allDaysData[i].data and currentData is its last element.
C3_SelectedDayShown ==
  (Idle /\ lastEvent.control = "selectDay") =>
    LET i == lastEvent.index
    IN /\ i \in 0..6
       /\ selectedDayIndex = i
       /\ plantData = At(allDaysData, i).data
       /\ CurrentData(plantData) = At(At(allDaysData, i).data, 11)

\* Day 3 was picked and its readings, not today's, are shown.
C3_Witness ==
  /\ Idle
  /\ lastEvent = Tap("selectDay", 3, "none")
  /\ plantData # At(allDaysData, 0).data
  /\ CurrentData(plantData).datetime.day = -3

\* C4: refreshData keeps selectedDayIndex, selectedMetric and
\* dayPickerVisible, replaces allDaysData by a new dataset of 7 buckets, sets
\* plantData to the new bucket at selectedDayIndex, and leaves no reading of
\* the old dataset in the state.
C4_RefreshFrame ==
  [][refreshData =>
       /\ selectedDayIndex' = selectedDayIndex
       /\ selectedMetric' = selectedMetric
       /\ dayPickerVisible' = dayPickerVisible
       /\ Len(allDaysData') = 7
       /\ plantData' = At(allDaysData', selectedDayIndex).data
       /\ Readings(allDaysData') \cap Readings(allDaysData) = {}
       /\ \A k \in 1..Len(plantData') : plantData'[k] \notin Readings(allDaysData)
       /\ \A d \in 1..7 : allDaysData'[d] # allDaysData[d]]_vars

\* Just after a refresh with day 2 and the humidity chart selected.
C4_Witness ==
  /\ lastEvent = Tap("refresh", -1, "none")
  /\ pendingEffects # {}
  /\ selectedDayIndex = 2
  /\ selectedMetric = "humidity"
  /\ plantData = At(allDaysData, 2).data

\* C5: the selected day index is always within the generated set.
C5_SelectedDayInBounds ==
  0 <= selectedDayIndex /\ selectedDayIndex < Len(allDaysData)

\* The oldest day is selected and the data was refreshed since.
C5_Witness ==
  /\ selectedDayIndex = 6
  /\ lastEvent = Tap("refresh", -1, "none")
  /\ CurrentData(At(allDaysData, 0).data).obj # 0

\* C6: allDaysData always has 7 buckets of 12 readings at hours 0, 2, ..., 22
\* in increasing order, and plantData has 12 readings.
C6_SevenBucketsOfTwelve ==
  /\ Len(allDaysData) = 7
  /\ \A d \in 0..6 :
       /\ Len(At(allDaysData, d).data) = 12
       /\ \A k \in 0..11 : At(At(allDaysData, d).data, k).datetime.hour = 2 * k
  /\ Len(plantData) = 12

\* A second generation of the dataset is shown, for a day other than today.
C6_Witness ==
  /\ lastEvent = Tap("refresh", -1, "none")
  /\ Idle
  /\ selectedDayIndex = 4
  /\ Len(plantData) = 12
  /\ At(plantData, 11).datetime = [day |-> -4, hour |-> 22, minute |-> 0]

\* C7: every generated reading has temperature in [65,75], humidity in
\* [50,70] and soil moisture in [40,70].
C7_ReadingsInRange ==
  \A r \in Readings(allDaysData) \cup {plantData[k] : k \in 1..Len(plantData)} :
    /\ 65 <= r.temperature /\ r.temperature <= 75
    /\ 50 <= r.humidity /\ r.humidity <= 70
    /\ 40 <= r.soilMoisture /\ r.soilMoisture <= 70

\* A refreshed dataset holding the extreme draws of each measurement.
C7_Witness ==
  /\ lastEvent = Tap("refresh", -1, "none")
  /\ \E r \in Readings(allDaysData) : r.temperature = 65
  /\ \E r \in Readings(allDaysData) : r.temperature = 74
  /\ \E r \in Readings(allDaysData) : r.humidity = 50
  /\ \E r \in Readings(allDaysData) : r.humidity = 69
  /\ \E r \in Readings(allDaysData) : r.soilMoisture = 40
  /\ \E r \in Readings(allDaysData) : r.soilMoisture = 69

\* C8: a tap on a metric button sets selectedMetric to that metric, so that
\* the chart plots that field of every reading of plantData in order, and
\* changes nothing else.
C8_MetricFrame ==
  [][\A metric \in MetricType :
       SelectMetric(metric) =>
         /\ selectedMetric' = metric
         /\ ChartSeries' = [k \in 1..Len(plantData) |-> plantData[k][metric]]
         /\ UNCHANGED <<allDaysData, selectedDayIndex, plantData, plantStatus,
                        dayPickerVisible>>]_vars

\* The soil-moisture chart of a day other than today is shown.
C8_Witness ==
  /\ lastEvent = Tap("selectMetric", -1, "soilMoisture")
  /\ selectedMetric = "soilMoisture"
  /\ selectedDayIndex = 5
  /\ ChartSeries[12] = At(At(allDaysData, 5).data, 11).soilMoisture

\* C9: in every committed render plantData is allDaysData[selectedDayIndex]
\* .data, so the day label and the values shown belong to the same day.
C9_RenderShowsOneDay ==
  /\ plantData = At(allDaysData, selectedDayIndex).data
  /\ \A k \in 1..Len(plantData) : plantData[k].displayDate = DayLabel

\* The dataset a refresh with the given stream would put in place, and the
\* status shown once day `index` of it is selected and the effects have run.
StatusAfter(seed, index) ==
  Classify(CurrentData(At(generateHistoricalData(NewObj, seed), index).data))

\* C10 as stated: each of the four statuses is the status of some day of some
\* dataset a refresh can put in place.
C10_EveryStatusReachable ==
  \A s \in PlantStatus : \E seed \in Seeds, index \in 0..6 : StatusAfter(seed, index) = s

\* C10 as amended: 'healthy', 'needs water' and 'low humidity' are each the
\* status of some day of some dataset a refresh can put in place; plantStatus
\* is never 'too hot'.
C10_AllButTooHotReachable ==
  /\ plantStatus # "too hot"
  /\ \A r \in Readings(allDaysData) : Classify(r) # "too hot"
  /\ \A s \in PlantStatus \ {"too hot"} :
       \E seed \in Seeds, index \in 0..6 : StatusAfter(seed, index) = s

\* A day picked in the day picker shows 'low humidity'.
C10_Witness ==
  /\ Idle
  /\ lastEvent.control = "selectDay"
  /\ plantStatus = "low humidity"

====
